---------------------------- MODULE Spec2Model ----------------------------
(***************************************************************************)
(* A model of the QRIS / EMV TLV codec of src/src/utils/qris.ts:           *)
(* parseEmv, buildValue, buildEmv, crc16Ccitt and                          *)
(* generateDynamicQRISPayload.                                             *)
(*                                                                         *)
(* A JavaScript string is a sequence of characters, each character a       *)
(* one-element TLA+ string ("EURO" stands for the single code unit U+20AC).*)
(* An EmvMap (a JavaScript object) is the sequence of its entries in       *)
(* Object.entries order; an entry is [tag |-> string, val |-> value] and   *)
(* a value is [kind |-> "leaf", str |-> string, ent |-> <<>>] or           *)
(* [kind |-> "map", str |-> <<>>, ent |-> EmvMap].                         *)
(***************************************************************************)
EXTENDS Integers, Sequences, FiniteSets, TLC

VARIABLES tree, text, call, view, manager, store

vars == <<tree, text, call, view, manager, store>>

---------------------------------------------------------------------------
(* Characters and their UTF-16 code units.                                 *)

Digits == <<"0", "1", "2", "3", "4", "5", "6", "7", "8", "9">>

UpperCase ==
  <<"A", "B", "C", "D", "E", "F", "G", "H", "I", "J", "K", "L", "M",
    "N", "O", "P", "Q", "R", "S", "T", "U", "V", "W", "X", "Y", "Z">>

LowerCase ==
  <<"a", "b", "c", "d", "e", "f", "g", "h", "i", "j", "k", "l", "m",
    "n", "o", "p", "q", "r", "s", "t", "u", "v", "w", "x", "y", "z">>

IndexIn(tbl, c) == CHOOSE i \in 1..Len(tbl) : tbl[i] = c

IsIn(tbl, c) == \E i \in 1..Len(tbl) : tbl[i] = c

IsDigit(c) == IsIn(Digits, c)

IsUpper(c) == IsIn(UpperCase, c)

IsLower(c) == IsIn(LowerCase, c)

\* The character class [0-9A-Za-z] of the tag pattern.
IsAlnum(c) == IsDigit(c) \/ IsUpper(c) \/ IsLower(c)

\* String.prototype.charCodeAt for one character.
charCodeAt(c) ==
  IF IsDigit(c) THEN 47 + IndexIn(Digits, c)
  ELSE IF IsUpper(c) THEN 64 + IndexIn(UpperCase, c)
  ELSE IF IsLower(c) THEN 96 + IndexIn(LowerCase, c)
  ELSE CASE c = " " -> 32
         [] c = "!" -> 33
         [] c = "+" -> 43
         [] c = "-" -> 45
         [] c = "." -> 46
         [] c = "NOT" -> 172
         [] c = "EURO" -> 8364

\* String.prototype.toUpperCase, character by character.
toUpperCase(s) ==
  [k \in 1..Len(s) |->
     IF IsLower(s[k]) THEN UpperCase[IndexIn(LowerCase, s[k])] ELSE s[k]]

---------------------------------------------------------------------------
(* Numbers and the string primitives the codec uses.                       *)

\* A JavaScript number that is an integer, or NaN.
Num(n) == [nan |-> FALSE, n |-> n]

NaN == [nan |-> TRUE, n |-> 0]

Min(a, b) == IF a < b THEN a ELSE b

Max(a, b) == IF a > b THEN a ELSE b

\* String.prototype.slice(start, end) with integer arguments: a negative
\* index counts from the end, both are clamped to 0..length, and the result
\* is empty when the start is not before the end.
Slice(s, start, end) ==
  LET from == IF start < 0 THEN Max(Len(s) + start, 0) ELSE Min(start, Len(s))
      to   == IF end < 0 THEN Max(Len(s) + end, 0) ELSE Min(end, Len(s))
  IN  IF from < to THEN SubSeq(s, from + 1, to) ELSE <<>>

\* A slice that gives nothing when the end asked for is beyond the string.
SliceNumWholeOrNothing(s, start, end) ==
  IF ~end.nan /\ end.n > Len(s) THEN <<>>
  ELSE Slice(s, start, IF end.nan THEN 0 ELSE end.n)

\* slice(start, end) where end is a Number: ToIntegerOrInfinity(NaN) is 0.
SliceNum(s, start, end) == Slice(s, start, IF end.nan THEN 0 ELSE end.n)

RECURSIVE DigitsValue(_, _)
\* The value of the longest prefix of decimal digits of s, from acc.
DigitsValue(s, acc) ==
  IF s = <<>> \/ ~IsDigit(s[1]) THEN acc
  ELSE DigitsValue(Tail(s), 10 * acc + (IndexIn(Digits, s[1]) - 1))

RECURSIVE TrimStart(_)
\* parseInt skips leading white space.
TrimStart(s) == IF s # <<>> /\ s[1] = " " THEN TrimStart(Tail(s)) ELSE s

\* parseInt(s, 10) || 0: a string that holds no number reads as 0.
parseIntOrZero(s) ==
  LET t    == TrimStart(s)
      neg  == t # <<>> /\ t[1] = "-"
      body == IF t # <<>> /\ t[1] \in {"-", "+"} THEN Tail(t) ELSE t
  IN  IF body = <<>> \/ ~IsDigit(body[1]) THEN Num(0)
      ELSE Num(IF neg THEN 0 - DigitsValue(body, 0) ELSE DigitsValue(body, 0))

\* parseInt(s, 10): white space, an optional sign, then the longest run of
\* digits; NaN when there is no digit.
parseInt(s) ==
  LET t    == TrimStart(s)
      neg  == t # <<>> /\ t[1] = "-"
      body == IF t # <<>> /\ t[1] \in {"-", "+"} THEN Tail(t) ELSE t
  IN  IF body = <<>> \/ ~IsDigit(body[1]) THEN NaN
      ELSE Num(IF neg THEN 0 - DigitsValue(body, 0) ELSE DigitsValue(body, 0))

RECURSIVE toStringDec(_)
\* Number.prototype.toString() of a non-negative integer.
toStringDec(n) ==
  IF n < 10 THEN <<Digits[n + 1]>>
  ELSE toStringDec(n \div 10) \o <<Digits[(n % 10) + 1]>>

RECURSIVE padStart(_, _, _)
\* String.prototype.padStart(width, fill) with a one-character fill.
padStart(s, width, fill) ==
  IF Len(s) >= width THEN s ELSE padStart(<<fill>> \o s, width, fill)

\* padLen without the padding: n.toString() alone.
padLenUnpadded(n) == toStringDec(n)

padLen(n) == padStart(toStringDec(n), 2, "0")


---------------------------------------------------------------------------
(* crc16Ccitt, on 32-bit integers that stay non-negative here: the         *)
(* register is below 2^16 before a character is mixed in and the shifted   *)
(* code unit is below 2^24.                                                *)

RECURSIVE Xor(_, _)
\* The bitwise ^ of two non-negative integers.
Xor(a, b) ==
  IF a = 0 THEN b
  ELSE IF b = 0 THEN a
  ELSE ((a + b) % 2) + 2 * Xor(a \div 2, b \div 2)

CrcInit == 65535

CrcPoly == 4129

CrcHighBit == 32768

CrcMask == 65536

\* The pass with the test "at least 0x8000" in place of the test of bit 15.
CrcShiftAtLeastHighBit(crc) ==
  (IF crc >= CrcHighBit THEN Xor(crc * 2, CrcPoly) ELSE crc * 2) % CrcMask

\* One pass of the inner loop: test bit 15, shift, xor the polynomial in,
\* keep the low 16 bits.
CrcShift(crc) ==
  (IF (crc \div CrcHighBit) % 2 # 0 THEN Xor(crc * 2, CrcPoly) ELSE crc * 2)
     % CrcMask

RECURSIVE CrcBits(_, _)
\* for (let j = 0; j < 8; j++)
CrcBits(crc, j) == IF j < 8 THEN CrcBits(CrcShift(crc), j + 1) ELSE crc

RECURSIVE CrcLoop(_, _, _, _)
\* for (let i = 0; i < str.length; i++): the iterations i = lo .. hi - 1 in
\* order (i counted from 0), evaluated as the first half of them followed
\* by the second half.
CrcLoop(str, lo, hi, crc) ==
  IF lo >= hi THEN crc
  ELSE IF hi = lo + 1
    THEN CrcBits(Xor(crc, charCodeAt(str[lo + 1]) * 256), 0)
  ELSE LET mid  == (lo + hi) \div 2
           left == CrcLoop(str, lo, mid, crc)
       IN  \* the register after the first half is a non-negative number
           IF left >= 0 THEN CrcLoop(str, mid, hi, left) ELSE left

HexDigits ==
  <<"0", "1", "2", "3", "4", "5", "6", "7", "8", "9", "a", "b", "c", "d", "e", "f">>

RECURSIVE toStringHex(_)
\* Number.prototype.toString(16) of a non-negative integer.
toStringHex(n) ==
  IF n < 16 THEN <<HexDigits[n + 1]>>
  ELSE toStringHex(n \div 16) \o <<HexDigits[(n % 16) + 1]>>

\* The XModem variant: the register starts at 0.
crc16CcittInitZero(str) ==
  padStart(toStringHex(CrcLoop(str, 0, Len(str), 0)), 4, "0")

\* The register printed as it is: toString(16) without padStart.
crc16CcittUnpadded(str) == toStringHex(CrcLoop(str, 0, Len(str), CrcInit))

crc16Ccitt(str) ==
  padStart(toStringHex(CrcLoop(str, 0, Len(str), CrcInit)), 4, "0")

---------------------------------------------------------------------------
(* EmvMap: a JavaScript object whose keys are tags.                        *)

Leaf(s) == [kind |-> "leaf", str |-> s, ent |-> <<>>]

Composite(m) == [kind |-> "map", str |-> <<>>, ent |-> m]

Entry(tag, val) == [tag |-> tag, val |-> val]

HasKey(map, tag) == \E k \in 1..Len(map) : map[k].tag = tag

Get(map, tag) == map[CHOOSE k \in 1..Len(map) : map[k].tag = tag].val

\* A key that is a canonical array index ("0", "10", "62", but not "01"):
\* such keys are enumerated first, in ascending numeric order.
IsArrayIndex(tag) ==
  /\ tag # <<>>
  /\ \A k \in 1..Len(tag) : IsDigit(tag[k])
  /\ (Len(tag) = 1 \/ tag[1] # "0")

\* A list of pairs in place of an object: every assignment adds a pair.
PutAppends(map, tag, val) == Append(map, Entry(tag, val))

\* map[tag] = val, keeping the object's own property order (what
\* Object.entries returns): an existing key keeps its place, a new array
\* index goes among the array indices by value, any other new key goes last.
Put(map, tag, val) ==
  IF HasKey(map, tag)
    THEN [k \in 1..Len(map) |->
            IF map[k].tag = tag THEN Entry(tag, val) ELSE map[k]]
  ELSE IF IsArrayIndex(tag)
    THEN LET n == DigitsValue(tag, 0)
             before == Cardinality({k \in 1..Len(map) :
                          /\ IsArrayIndex(map[k].tag)
                          /\ DigitsValue(map[k].tag, 0) < n})
         IN  SubSeq(map, 1, before) \o <<Entry(tag, val)>>
               \o SubSeq(map, before + 1, Len(map))
  ELSE Append(map, Entry(tag, val))

---------------------------------------------------------------------------
(* parseEmv.  A call either returns a map or never returns; the loop is    *)
(* deterministic, so it never returns exactly when it comes back to a loop *)
(* head with the cursor and the map it already had there.                  *)

Returns(map) == [returns |-> TRUE, map |-> map]

Hangs == [returns |-> FALSE, map |-> <<>>]

\* The tag test reduced to "something was read": any non-empty slice passes.
TagPatternNonEmpty(tag) == tag # <<>>

\* /^[0-9A-Za-z]{2}$/.test(tag)
TagPattern(tag) == Len(tag) = 2 /\ IsAlnum(tag[1]) /\ IsAlnum(tag[2])

\* The range test with its lower end left out: > 26 for >= 26.
IsCompositeTagAbove26(tag) ==
  \/ tag = <<"6", "2">>
  \/ LET t == parseInt(tag) IN ~t.nan /\ t.n > 26 /\ t.n <= 51

\* tag === '62' || (parseInt(tag, 10) >= 26 && parseInt(tag, 10) <= 51)
IsCompositeTag(tag) ==
  \/ tag = <<"6", "2">>
  \/ LET t == parseInt(tag) IN ~t.nan /\ t.n >= 26 /\ t.n <= 51

\* while (i < payload.length)
WhileCondition(payload, i) == i < Len(payload)

\* The loop without its last statement: no tag ends it.
BreaksAfterNoTag(tag) == FALSE

\* if (tag === '63') break;
BreaksAfter(tag) == tag = <<"6", "3">>

RECURSIVE ParseLoop(_, _, _, _)
\* One evaluation of the while condition at cursor i with the map built so
\* far, and the iterations that follow it.
ParseLoop(payload, i, map, seen) ==
  IF ~WhileCondition(payload, i) THEN Returns(map)
  ELSE IF <<i, map>> \in seen THEN Hangs
  ELSE
    LET tag == Slice(payload, i, i + 2)
    IN  IF ~TagPattern(tag) THEN Returns(map)
        ELSE
          LET len   == parseInt(Slice(payload, i + 2, i + 4))
              value == SliceNum(payload, i + 4,
                                IF len.nan THEN NaN ELSE Num(i + 4 + len.n))
              sub   == IF IsCompositeTag(tag)
                         THEN ParseLoop(value, 0, <<>>, {})
                         ELSE Returns(<<>>)
              next  == Put(map, tag,
                           IF IsCompositeTag(tag) THEN Composite(sub.map)
                                                  ELSE Leaf(value))
          IN  IF ~sub.returns THEN Hangs
              ELSE IF BreaksAfter(tag) THEN Returns(next)
              \* i += NaN leaves the cursor NaN and NaN < length is false
              ELSE IF len.nan THEN Returns(next)
              ELSE ParseLoop(payload, i + 4 + len.n, next,
                             seen \cup {<<i, map>>})

parseEmv(payload) == ParseLoop(payload, 0, <<>>, {})

---------------------------------------------------------------------------
(* buildValue and buildEmv.                                                *)

RECURSIVE EmitEntriesRawLength(_)
\* The loop body with the length of the entry's own string (val.length)
\* in place of the length of the built value.
EmitEntriesRawLength(entries) ==
  IF entries = <<>> THEN <<>>
  ELSE LET e    == Head(entries)
           vStr == IF e.val.kind = "leaf" THEN e.val.str
                                          ELSE EmitEntriesRawLength(e.val.ent)
       IN  e.tag \o padLen(Len(e.val.str)) \o vStr
             \o EmitEntriesRawLength(Tail(entries))

RECURSIVE EmitEntries(_)
\* The body shared by the loops of buildValue and buildEmv: for each entry
\* in order, tag + padLen(length of the built value) + built value.
EmitEntries(entries) ==
  IF entries = <<>> THEN <<>>
  ELSE LET e    == Head(entries)
           vStr == IF e.val.kind = "leaf" THEN e.val.str
                                          ELSE EmitEntries(e.val.ent)
       IN  e.tag \o padLen(Len(vStr)) \o vStr \o EmitEntries(Tail(entries))

buildValue(val) == IF val.kind = "leaf" THEN val.str ELSE EmitEntries(val.ent)

\* The collation weight String.prototype.localeCompare gives a character
\* first: digits before letters, letters in alphabetical order whatever
\* their case (0 for any other character: the tags compared are
\* alphanumeric).
PrimaryWeight(c) ==
  IF IsDigit(c) THEN IndexIn(Digits, c)
  ELSE IF IsUpper(c) THEN 10 + IndexIn(UpperCase, c)
  ELSE IF IsLower(c) THEN 10 + IndexIn(LowerCase, c)
  ELSE 0

\* The weight that breaks a tie of the first: lower case before upper case.
CaseWeight(c) == IF IsUpper(c) THEN 1 ELSE 0

\* The weight of a character at a level of the comparison.
Weight(level, c) == IF level = "primary" THEN PrimaryWeight(c) ELSE CaseWeight(c)

RECURSIVE CompareBy(_, _, _)
\* The strings compared weight by weight at one level: -1, 0 or 1.
CompareBy(level, a, b) ==
  IF a = <<>> /\ b = <<>> THEN 0
  ELSE IF a = <<>> THEN 0 - 1
  ELSE IF b = <<>> THEN 1
  ELSE IF Weight(level, a[1]) < Weight(level, b[1]) THEN 0 - 1
  ELSE IF Weight(level, a[1]) > Weight(level, b[1]) THEN 1
  ELSE CompareBy(level, Tail(a), Tail(b))

\* a.localeCompare(b) under the default (root) collation: the first weights
\* of the whole strings decide, and the case only when they are all equal.
localeCompare(a, b) ==
  IF CompareBy("primary", a, b) # 0 THEN CompareBy("primary", a, b)
  ELSE CompareBy("case", a, b)

RECURSIVE SortEntries(_)
\* entries.sort((a, b) => a[0].localeCompare(b[0])): a stable sort.
SortEntries(entries) ==
  IF entries = <<>> THEN <<>>
  ELSE LET rest == SortEntries(Tail(entries))
           e    == Head(entries)
           k    == Cardinality({j \in 1..Len(rest) :
                                  localeCompare(rest[j].tag, e.tag) < 0})
       IN  SubSeq(rest, 1, k) \o <<e>> \o SubSeq(rest, k + 1, Len(rest))

\* Object.entries(map) with no filter: the tag 63 of the map is emitted too.
WithoutCrcKeepsAll(map) == map

\* Object.entries(map).filter(([t]) => t !== '63')
WithoutCrc(map) == SelectSeq(map, LAMBDA e : e.tag # <<"6", "3">>)

\* buildEmv without .toUpperCase() on the checksum.
buildEmvLowerCaseCrc(map) ==
  LET payloadNoCRC == EmitEntries(SortEntries(WithoutCrc(map)))
      forCRC == payloadNoCRC \o <<"6", "3">> \o padLen(4)
  IN  payloadNoCRC \o <<"6", "3">> \o padLen(4) \o crc16Ccitt(forCRC)

\* buildEmv with the checksum taken before the placeholder is appended.
buildEmvCrcOfFieldsOnly(map) ==
  LET payloadNoCRC == EmitEntries(SortEntries(WithoutCrc(map)))
      crc == toUpperCase(crc16Ccitt(payloadNoCRC))
  IN  payloadNoCRC \o <<"6", "3">> \o padLen(4) \o crc

buildEmv(map) ==
  LET payloadNoCRC == EmitEntries(SortEntries(WithoutCrc(map)))
      forCRC == payloadNoCRC \o <<"6", "3">> \o padLen(4)
      crc    == toUpperCase(crc16Ccitt(forCRC))
  IN  payloadNoCRC \o <<"6", "3">> \o padLen(4) \o crc

---------------------------------------------------------------------------
(* generateDynamicQRISPayload.  An amount is a whole number of hundredths  *)
(* (1050 is 10.5); a reference is absent (undefined) or a string.          *)

NoReference == [given |-> FALSE, str |-> <<>>]

Reference(s) == [given |-> TRUE, str |-> s]

\* if (reference): undefined and the empty string are falsy.
Truthy(reference) == reference.given /\ reference.str # <<>>

\* amount.toFixed(2)
toFixed2(amount) ==
  LET a == IF amount < 0 THEN 0 - amount ELSE amount
  IN  (IF amount < 0 THEN <<"-">> ELSE <<>>)
        \o toStringDec(a \div 100) \o <<".">>
        \o padStart(toStringDec(a % 100), 2, "0")

\* A general trim of trailing zeros and of a bare point: /\.?0+$/ applied
\* to a string that has a point.
RECURSIVE StripTrailingZeros(_)
StripTrailingZeros(s) ==
  IF s # <<>> /\ s[Len(s)] = "0" THEN StripTrailingZeros(SubSeq(s, 1, Len(s) - 1))
  ELSE IF s # <<>> /\ s[Len(s)] = "." THEN SubSeq(s, 1, Len(s) - 1)
  ELSE s

\* .replace(/\.00$/, '')
StripDot00(s) ==
  IF Len(s) >= 3 /\ SubSeq(s, Len(s) - 2, Len(s)) = <<".", "0", "0">>
    THEN SubSeq(s, 1, Len(s) - 3)
    ELSE s

amountStr(amount) == StripDot00(toFixed2(amount))

\* The map after the assignments to emv['01'], emv['54'] and emv['62'].
DynamicEmv(parsed, amount, reference) ==
  LET e1   == Put(parsed, <<"0", "1">>, Leaf(<<"1", "2">>))
      e2   == Put(e1, <<"5", "4">>, Leaf(amountStr(amount)))
      old  == IF HasKey(e2, <<"6", "2">>) /\ Get(e2, <<"6", "2">>).kind = "map"
                THEN Get(e2, <<"6", "2">>).ent
                ELSE <<>>
      addl == IF Truthy(reference)
                THEN Put(old, <<"0", "1">>, Leaf(reference.str))
                ELSE old
  IN  Put(e2, <<"6", "2">>, Composite(addl))

\* The call returns the built string, or never returns when parseEmv does
\* not; emv is the map handed to buildEmv.
generateDynamicQRISPayload(basePayload, amount, reference) ==
  LET parsed == parseEmv(basePayload)
  IN  IF ~parsed.returns
        THEN [returns |-> FALSE, emv |-> <<>>, str |-> <<>>]
        ELSE LET emv == DynamicEmv(parsed.map, amount, reference)
             IN  [returns |-> TRUE, emv |-> emv, str |-> buildEmv(emv)]

---------------------------------------------------------------------------
(* decodeQRFromBase64.  QrScanner.scanImage is the library's: its promise  *)
(* is fulfilled with a string, with an object that may carry a string in   *)
(* its data property, with null or undefined, or it is rejected (a throw   *)
(* inside the awaited call is a rejection too).                            *)

JsString(s) == [type |-> "string", str |-> s, props |-> <<>>]

JsUndefined == [type |-> "undefined", str |-> <<>>, props |-> <<>>]

JsNull == [type |-> "null", str |-> <<>>, props |-> <<>>]

\* An object with no data property, or with the data property given.
JsObject(props) == [type |-> "object", str |-> <<>>, props |-> props]

\* What awaiting the scan yields: a value, or an exception.
Fulfilled(value) == [settled |-> "fulfilled", value |-> value]

Rejected == [settled |-> "rejected", value |-> JsUndefined]

\* result?.data
OptionalData(result) ==
  IF result.type = "object" /\ result.props # <<>> THEN result.props[1]
  ELSE JsUndefined

\* x || '': undefined, null and the empty string are falsy.
OrEmptyString(x) ==
  IF x.type \in {"undefined", "null"} \/ (x.type = "string" /\ x.str = <<>>)
    THEN JsString(<<>>)
    ELSE x

\* The body of the try block alone: a failed scan rejects the promise.
decodeQRFromBase64NoCatch(scan) ==
  IF scan.settled = "rejected" THEN Rejected
  ELSE IF scan.value.type = "string" THEN Fulfilled(scan.value)
  ELSE Fulfilled(OrEmptyString(OptionalData(scan.value)))

\* The promise the async function returns, for each outcome of the scan.
decodeQRFromBase64(scan) ==
  IF scan.settled = "rejected" THEN Fulfilled(JsString(<<>>))
  ELSE IF scan.value.type = "string" THEN Fulfilled(scan.value)
  ELSE Fulfilled(OrEmptyString(OptionalData(scan.value)))

---------------------------------------------------------------------------
(* The inputs the codec is run on.                                         *)

\* Entries written to a map: at most MaxTags tags, each composite with at
\* most MaxSubs sub-tags; a long leaf has LongLen characters.
MaxTags == 2

MaxSubs == 2

LongLen == 100

\* Pieces a payload string is put together from: at most MaxPieces.
MaxPieces == 2

LongLeaf == [k \in 1..LongLen |-> "A"]

\* map[tag] = leaf, as the caller of buildEmv may have written it.
LeafWrites ==
  { <<<<"0", "1">>, <<"1", "2">>>>,
    <<<<"0", "1">>, LongLeaf>>,
    <<<<"2", "6">>, <<"0", "1", "0", "0", "1", "0", "0", "0">>>>,
    <<<<"6", "3">>, <<"EURO">>>>,
    <<<<"B", "1">>, <<>>>>,
    <<<<"a", "1">>, <<"EURO">>>> }

CompositeTags == { <<"2", "6">> }

SubTags == { <<"0", "1">>, <<"0", "5">>, <<"1", "0">> }

SubValue == <<"A", "1">>

Pieces ==
  { <<"0", "1", "0", "2", "1", "1">>,
    <<"6", "2", "0", "6", "0", "5", "0", "2", "A", "1">>,
    <<"2", "6", "0", "2", "!", "!">>,
    <<"6", "2", "0", "0">>,
    <<"0", "0", "-", "4">>,
    <<"9", "9", "0", "9">>,
    <<"2", "A">>,
    <<"!">>,
    <<"7">>,
    <<"EURO">>,
    <<"1", "2", "3", "4", "5", "6", "7", "8", "9">>,
    <<"6", "3", "0", "4", "A", "B", "C", "D">> }

\* Fields a payload may be made of: two leaves and two composites under one
\* tag each, a leaf and a composite with a length that is no number, and a
\* leaf and a composite that state 99 characters.
Fields ==
  { <<"0", "1", "0", "2", "1", "1">>,
    <<"0", "1", "0", "2", "A", "B">>,
    <<"6", "2", "0", "6", "0", "5", "0", "2", "A", "1">>,
    <<"6", "2", "0", "6", "0", "7", "0", "2", "0", "1">>,
    <<"0", "1", "!", "!">>,
    <<"2", "6", "!", "!">>,
    <<"0", "1", "9", "9">>,
    <<"2", "6", "9", "9">> }

\* The text a scanned code may hold.
ScannedText == <<"6", "3", "0", "4", "A", "B", "C", "D">>

\* Outcomes of QrScanner.scanImage.
Scans ==
  { Fulfilled(JsString(ScannedText)),
    Fulfilled(JsString(<<>>)),
    Fulfilled(JsObject(<<JsString(ScannedText)>>)),
    Fulfilled(JsObject(<<JsString(<<>>)>>)),
    Fulfilled(JsObject(<<JsUndefined>>)),
    Fulfilled(JsObject(<<>>)),
    Fulfilled(JsNull),
    Fulfilled(JsUndefined),
    Rejected }

\* 15000, 10.5, 10.05 and 0, in hundredths
Amounts == { 1500000, 1050, 1005, 0 }

References == { NoReference, Reference(<<"O", "R", "D", "-", "0", "0", "1">>) }

RECURSIVE Flatten(_)
Flatten(pieces) ==
  IF pieces = <<>> THEN <<>> ELSE Head(pieces) \o Flatten(Tail(pieces))

---------------------------------------------------------------------------
(* The state: the map and the payload text being prepared, and the last    *)
(* call made with its input, its result and the call before it.            *)

NoCall == [op |-> "none"]

Call(op, in, out, prev) == [op |-> op, in |-> in, out |-> out, prev |-> prev]

\* dynamicQR: null, or the data URL made for a payload
NullImage == [set |-> FALSE, from |-> <<>>]

\* QRCode.toDataURL(payload, ...): the image of the payload
makeQRDataURL(payload) == [set |-> TRUE, from |-> payload]

\* The values the effect of OrderView depends on.
Deps(qrisPayload, total, orderNumber) ==
  [qrisPayload |-> qrisPayload, total |-> total, orderNumber |-> orderNumber]

\* OrderView before it is rendered: no generation is pending, dynamicQR is
\* null (useState(null)); changes counts the changes of the order shown.
ViewUnmounted ==
  [mounted |-> FALSE, deps |-> Deps(<<>>, 0, <<>>), pending |-> {},
   dynamicQR |-> NullImage, changes |-> 0]

\* formData of QRISManager as useState sets it and handleCancel resets it;
\* of its fields the image (a data URL, '' for none) and the payload are
\* kept, the name and the merchant name being whatever the user typed.
EmptyForm == [qrisImage |-> "", qrisPayload |-> <<>>]

\* QRISManager as it is first rendered with nothing saved: the form is
\* hidden and empty, no record is edited, no file is being read and no image
\* decoded; saved is settings.qrisDetails in the local storage.
ManagerInitial ==
  [showForm |-> FALSE, editingQRIS |-> <<>>, formData |-> EmptyForm,
   reading |-> {}, decoding |-> {}, saved |-> <<>>]

\* A date field of an order: undefined, or the time it was set at.
NoDate == [set |-> FALSE, at |-> 0]

DateAt(t) == [set |-> TRUE, at |-> t]

\* The local storage with no order in it, before any call: now is what
\* new Date() gives, last is the last call with the orders it found and
\* the webhook event it sent.
StoreInitial ==
  [orders |-> <<>>, now |-> 0,
   last |-> [op |-> "none", id |-> "", status |-> "", before |-> <<>>,
             sent |-> "none"]]

Init ==
  /\ tree = <<>>
  /\ text = <<>>
  /\ call = NoCall
  /\ view = ViewUnmounted
  /\ manager = ManagerInitial
  /\ store = StoreInitial

\* map[tag] = 'leaf' on a map that has no such tag yet
SetLeaf(tag, s) ==
  /\ call = NoCall /\ text = <<>>
  /\ ~HasKey(tree, tag) /\ Len(tree) < MaxTags
  /\ tree' = Put(tree, tag, Leaf(s))
  /\ UNCHANGED <<text, call, view, manager, store>>

\* map[tag] = {} on a map that has no such tag yet
SetComposite(tag) ==
  /\ call = NoCall /\ text = <<>>
  /\ ~HasKey(tree, tag) /\ Len(tree) < MaxTags
  /\ tree' = Put(tree, tag, Composite(<<>>))
  /\ UNCHANGED <<text, call, view, manager, store>>

\* map[tag][sub] = 'leaf' on a composite that has no such sub-tag yet
SetSub(tag, sub) ==
  /\ call = NoCall /\ text = <<>>
  /\ HasKey(tree, tag) /\ Get(tree, tag).kind = "map"
  /\ ~HasKey(Get(tree, tag).ent, sub)
  /\ Len(Get(tree, tag).ent) < MaxSubs
  /\ tree' = Put(tree, tag,
                 Composite(Put(Get(tree, tag).ent, sub, Leaf(SubValue))))
  /\ UNCHANGED <<text, call, view, manager, store>>

\* the payload string grows by one piece
AppendPiece(piece) ==
  /\ call = NoCall /\ tree = <<>>
  /\ Len(text) < MaxPieces
  /\ text' = Append(text, piece)
  /\ UNCHANGED <<tree, call, view, manager, store>>

\* buildEmv(tree)
Build ==
  /\ call = NoCall /\ text = <<>>
  /\ call' = Call("buildEmv", tree, buildEmv(tree), NoCall)
  /\ UNCHANGED <<tree, text, view, manager, store>>

\* parseEmv(text)
Parse ==
  /\ call = NoCall /\ tree = <<>>
  /\ call' = Call("parseEmv", Flatten(text), parseEmv(Flatten(text)), NoCall)
  /\ UNCHANGED <<tree, text, view, manager, store>>

\* parseEmv of the string buildEmv has just returned
ParseBuilt ==
  /\ call.op = "buildEmv" /\ call.prev = NoCall
  /\ call' = Call("parseEmv", call.out, parseEmv(call.out), call)
  /\ UNCHANGED <<tree, text, view, manager, store>>

\* buildEmv of the map parseEmv has just returned
BuildParsed ==
  /\ call.op = "parseEmv" /\ call.out.returns
  /\ call' = Call("buildEmv", call.out.map, buildEmv(call.out.map), call)
  /\ UNCHANGED <<tree, text, view, manager, store>>

\* generateDynamicQRISPayload(text, amount, reference)
Dynamic(amount, reference) ==
  /\ call = NoCall /\ tree = <<>>
  /\ call' = Call("generateDynamicQRISPayload",
                  [basePayload |-> Flatten(text), amount |-> amount,
                   reference |-> reference],
                  generateDynamicQRISPayload(Flatten(text), amount, reference),
                  NoCall)
  /\ UNCHANGED <<tree, text, view, manager, store>>

\* crc16Ccitt(text)
Crc ==
  /\ call = NoCall /\ tree = <<>>
  /\ call' = Call("crc16Ccitt", Flatten(text), crc16Ccitt(Flatten(text)), NoCall)
  /\ UNCHANGED <<tree, text, view, manager, store>>

\* await decodeQRFromBase64(image), the scan of the image ending as scan
Decode(scan) ==
  /\ call = NoCall /\ tree = <<>> /\ text = <<>>
  /\ call' = Call("decodeQRFromBase64", scan, decodeQRFromBase64(scan), NoCall)
  /\ UNCHANGED <<tree, text, view, manager, store>>

\* the payload string grows by one field, whole or broken
AppendField(field) ==
  /\ call = NoCall /\ tree = <<>>
  /\ Len(text) < MaxPieces
  /\ text' = Append(text, field)
  /\ UNCHANGED <<tree, call, view, manager, store>>

Next ==
  \/ \E w \in LeafWrites : SetLeaf(w[1], w[2])
  \/ \E tag \in CompositeTags : SetComposite(tag)
  \/ \E tag \in CompositeTags, sub \in SubTags : SetSub(tag, sub)
  \/ \E piece \in Pieces : AppendPiece(piece)
  \/ Build
  \/ Parse
  \/ ParseBuilt
  \/ BuildParsed
  \/ \E amount \in Amounts, reference \in References :
        Dynamic(amount, reference)
  \/ Crc
  \/ \E scan \in Scans : Decode(scan)

Spec == Init /\ [][Next]_vars

\* parseEmv on payloads put together from fields
FieldNext ==
  \/ \E field \in Fields : AppendField(field)
  \/ Parse

FieldSpec == Init /\ [][FieldNext]_vars

---------------------------------------------------------------------------
(* OrderView: the effect that makes the dynamic QR image.  It runs when    *)
(* the view is first rendered and after every render in which the QRIS     *)
(* payload, the total or the order number differ from the render before.   *)
(* makeQRDataURL returns a promise; the function gen goes on after the     *)
(* await when the promise is settled, and nothing orders the promises of   *)
(* two runs of the effect.                                                 *)

\* At most MaxChanges changes of what the view shows.
MaxChanges == 3

ViewPayloads == { <<>>, <<"0", "1", "0", "2", "1", "1">> }

ViewTotals == { 1500000, 1050, 0 }

ViewOrderNumber == <<"O", "R", "D", "-", "0", "0", "1">>

\* The string the effect hands to makeQRDataURL for the values d.
DynamicPayloadFor(d) ==
  generateDynamicQRISPayload(d.qrisPayload, d.total, Reference(d.orderNumber)).str

\* const gen = async () => {...}; gen(): up to the await, or to the end
\* when there is no payload.
RunEffect(v, d) ==
  IF d.qrisPayload # <<>>
    THEN [v EXCEPT !.deps = d, !.pending = @ \cup {DynamicPayloadFor(d)}]
    ELSE [v EXCEPT !.deps = d, !.dynamicQR = NullImage]

\* OrderView is rendered for an order
Mount(d) ==
  /\ ~view.mounted
  /\ view' = [RunEffect(view, d) EXCEPT !.mounted = TRUE]
  /\ UNCHANGED <<tree, text, call, manager, store>>

\* the order or the selected QRIS changes while the view is shown
ChangeDeps(d) ==
  /\ view.mounted
  /\ d # view.deps
  /\ view.changes < MaxChanges
  /\ view' = [RunEffect(view, d) EXCEPT !.changes = @ + 1]
  /\ UNCHANGED <<tree, text, call, manager, store>>

\* a promise of makeQRDataURL is fulfilled: setDynamicQR(url)
GenerationDone(payload) ==
  /\ payload \in view.pending
  /\ view' = [view EXCEPT !.pending = @ \ {payload},
                           !.dynamicQR = makeQRDataURL(payload)]
  /\ UNCHANGED <<tree, text, call, manager, store>>

\* a promise of makeQRDataURL is rejected: catch (e) { setDynamicQR(null) }
GenerationFailed(payload) ==
  /\ payload \in view.pending
  /\ view' = [view EXCEPT !.pending = @ \ {payload}, !.dynamicQR = NullImage]
  /\ UNCHANGED <<tree, text, call, manager, store>>

ViewDeps ==
  { Deps(q, t, ViewOrderNumber) : q \in ViewPayloads, t \in ViewTotals }

\* The strings the effect may hand to makeQRDataURL.
ViewGenerations ==
  { DynamicPayloadFor(d) : d \in {e \in ViewDeps : e.qrisPayload # <<>>} }

ViewNext ==
  \/ \E d \in ViewDeps : Mount(d)
  \/ \E d \in ViewDeps : ChangeDeps(d)
  \/ \E payload \in ViewGenerations : GenerationDone(payload)
  \/ \E payload \in ViewGenerations : GenerationFailed(payload)

ViewSpec == Init /\ [][ViewNext]_vars

---------------------------------------------------------------------------
(* QRISManager: the form that saves a QRIS record with its image and the   *)
(* payload decoded from the image.  Reading the chosen file and decoding   *)
(* the image both end some time after they were started; setFormData with  *)
(* a function changes the form data of that time.                          *)

\* At most MaxRecords records are saved.
MaxRecords == 2

\* The images a user may choose: one with a QR code in it and one in which
\* the scanner finds none.
ManagerImages == { "imgA", "imgB" }

ScanOfImage(image) ==
  IF image = "imgA" THEN Fulfilled(JsString(ScannedText)) ELSE Rejected

\* The string await decodeQRFromBase64(base64Image) gives.
DecodedFrom(image) == decodeQRFromBase64(ScanOfImage(image)).value.str

\* A record of settings.qrisDetails.
QRISRecord(id, qrisImage, qrisPayload) ==
  [id |-> id, qrisImage |-> qrisImage, qrisPayload |-> qrisPayload]

\* qris.qrisPayload || ''
PayloadOrEmpty(record) ==
  IF record.qrisPayload.type = "string" THEN record.qrisPayload.str ELSE <<>>

\* formData.qrisPayload || editingQRIS?.qrisPayload
SubmittedPayload(m) ==
  IF m.formData.qrisPayload # <<>> THEN JsString(m.formData.qrisPayload)
  ELSE IF m.editingQRIS = <<>> THEN JsUndefined
  ELSE m.editingQRIS[1].qrisPayload

\* saveQRIS: the record with the same id is replaced, a new one is pushed.
saveQRIS(saved, qris) ==
  IF \E k \in 1..Len(saved) : saved[k].id = qris.id
    THEN [k \in 1..Len(saved) |-> IF saved[k].id = qris.id THEN qris ELSE saved[k]]
    ELSE Append(saved, qris)

\* the button that shows the form: setShowForm(true)
OpenForm ==
  /\ ~manager.showForm
  /\ manager' = [manager EXCEPT !.showForm = TRUE]
  /\ UNCHANGED <<tree, text, call, view, store>>

\* handleImageUpload: an image file is chosen and handed to the reader
ChooseFile(image) ==
  /\ manager.showForm
  /\ manager' = [manager EXCEPT !.reading = @ \cup {image}]
  /\ UNCHANGED <<tree, text, call, view, store>>

\* reader.onload up to the await: the image goes into the form and its
\* decoding starts
FileRead(image) ==
  /\ image \in manager.reading
  /\ manager' = [manager EXCEPT !.reading = @ \ {image},
                               !.formData.qrisImage = image,
                               !.decoding = @ \cup {image}]
  /\ UNCHANGED <<tree, text, call, view, store>>

\* reader.onload after the await: the decoded payload goes into the form
DecodeDone(image) ==
  /\ image \in manager.decoding
  /\ manager' = [manager EXCEPT !.decoding = @ \ {image},
                               !.formData.qrisPayload = DecodedFrom(image)]
  /\ UNCHANGED <<tree, text, call, view, store>>

\* the button on the preview: the image is taken out of the form
RemoveImage ==
  /\ manager.showForm
  /\ manager.formData.qrisImage # ""
  /\ manager' = [manager EXCEPT !.formData.qrisImage = ""]
  /\ UNCHANGED <<tree, text, call, view, store>>

\* handleEdit(qris) for a saved record
Edit(k) ==
  /\ k \in 1..Len(manager.saved)
  /\ manager' = [manager EXCEPT
                   !.editingQRIS = <<manager.saved[k]>>,
                   !.formData = [qrisImage |-> manager.saved[k].qrisImage,
                                 qrisPayload |-> PayloadOrEmpty(manager.saved[k])],
                   !.showForm = TRUE]
  /\ UNCHANGED <<tree, text, call, view, store>>

\* handleSubmit with a form that validateForm accepts: the record is
\* saved and handleCancel resets the form
Submit ==
  /\ manager.showForm
  /\ manager.formData.qrisImage # ""
  /\ manager.editingQRIS # <<>> \/ Len(manager.saved) < MaxRecords
  /\ LET id == IF manager.editingQRIS # <<>> THEN manager.editingQRIS[1].id
                ELSE Len(manager.saved) + 1
         qrisData == QRISRecord(id, manager.formData.qrisImage,
                                SubmittedPayload(manager))
     IN  manager' = [manager EXCEPT !.saved = saveQRIS(@, qrisData),
                                    !.showForm = FALSE,
                                    !.editingQRIS = <<>>,
                                    !.formData = EmptyForm]
  /\ UNCHANGED <<tree, text, call, view, store>>

\* handleCancel
Cancel ==
  /\ manager.showForm
  /\ manager' = [manager EXCEPT !.showForm = FALSE, !.editingQRIS = <<>>,
                               !.formData = EmptyForm]
  /\ UNCHANGED <<tree, text, call, view, store>>

ManagerNext ==
  \/ OpenForm
  \/ \E image \in ManagerImages : ChooseFile(image)
  \/ \E image \in ManagerImages : FileRead(image)
  \/ \E image \in ManagerImages : DecodeDone(image)
  \/ RemoveImage
  \/ \E k \in 1..MaxRecords : Edit(k)
  \/ Submit
  \/ Cancel

ManagerSpec == Init /\ [][ManagerNext]_vars

---------------------------------------------------------------------------
(* The order store: saveOrder, deleteOrder and updateOrderStatus on the    *)
(* list of orders kept in the local storage.  Each call reads the list,    *)
(* changes it and writes it back without a pause in between.               *)

\* At most MaxCalls calls are made.
MaxCalls == 4

\* Of an order: the id, the status, the two dates and updatedAt.
Order(id, status, paymentDate, completedDate, updatedAt) ==
  [id |-> id, status |-> status, paymentDate |-> paymentDate,
   completedDate |-> completedDate, updatedAt |-> updatedAt]

\* orders.findIndex(ord => ord.id === id), counted from 1; 0 for -1.
FindIndex(orders, id) ==
  IF \E k \in 1..Len(orders) : orders[k].id = id
    THEN CHOOSE k \in 1..Len(orders) :
           /\ orders[k].id = id
           /\ \A j \in 1..(k - 1) : orders[j].id # id
    ELSE 0

\* saveOrder that pushes whatever the store holds.
saveOrderAlwaysPush(orders, order, t) == Append(orders, order)

\* The list saveOrder writes back when new Date() is t.
saveOrder(orders, order, t) ==
  LET existingIndex == FindIndex(orders, order.id)
  IN  IF existingIndex >= 1
        THEN [orders EXCEPT ![existingIndex] = [order EXCEPT !.updatedAt = t]]
        ELSE Append(orders, order)

\* getOrders().filter(ord => ord.id !== id)
deleteOrder(orders, id) == SelectSeq(orders, LAMBDA ord : ord.id # id)

\* updateOrderStatus with the dates set at every call that gives the status.
updateOrderStatusAlwaysStamps(orders, id, status, t) ==
  LET orderIndex == FindIndex(orders, id)
  IN  IF orderIndex >= 1
        THEN LET u1 == [orders[orderIndex] EXCEPT !.status = status, !.updatedAt = t]
                 u2 == IF status = "telah_dibayar"
                         THEN [u1 EXCEPT !.paymentDate = DateAt(t)] ELSE u1
                 u3 == IF status = "done"
                         THEN [u2 EXCEPT !.completedDate = DateAt(t)] ELSE u2
             IN  [orders EXCEPT ![orderIndex] = u3]
        ELSE orders

\* The list updateOrderStatus leaves in the storage when new Date() is t.
updateOrderStatus(orders, id, status, t) ==
  LET orderIndex == FindIndex(orders, id)
  IN  IF orderIndex >= 1
        THEN LET u1 == [orders[orderIndex] EXCEPT !.status = status, !.updatedAt = t]
                 u2 == IF status = "telah_dibayar" /\ ~u1.paymentDate.set
                         THEN [u1 EXCEPT !.paymentDate = DateAt(t)] ELSE u1
                 u3 == IF status = "done" /\ ~u2.completedDate.set
                         THEN [u2 EXCEPT !.completedDate = DateAt(t)] ELSE u2
             IN  [orders EXCEPT ![orderIndex] = u3]
        ELSE orders

Statuses == { "menunggu_pembayaran", "telah_dibayar", "done" }

StoredIds == { "o1", "o2" }

\* An id no order is ever saved with.
UnknownId == "o9"

\* The orders handed to saveOrder: new ones, and one that was paid before.
OrdersToSave ==
  { Order(id, status, NoDate, NoDate, 0) :
      id \in StoredIds, status \in {"menunggu_pembayaran", "done"} }
    \cup { Order("o1", "telah_dibayar", DateAt(0), NoDate, 0) }

LastCall(op, id, status, before, sent) ==
  [op |-> op, id |-> id, status |-> status, before |-> before, sent |-> sent]

\* saveOrder(order)
SaveOrder(order) ==
  /\ store.now < MaxCalls
  /\ store' = [orders |-> saveOrder(store.orders, order, store.now + 1),
               now |-> store.now + 1,
               last |-> LastCall("saveOrder", order.id, order.status, store.orders,
                                 IF FindIndex(store.orders, order.id) >= 1
                                   THEN "order_updated" ELSE "order_created")]
  /\ UNCHANGED <<tree, text, call, view, manager>>

\* deleteOrder(id)
DeleteOrder(id) ==
  /\ store.now < MaxCalls
  /\ store' = [orders |-> deleteOrder(store.orders, id),
               now |-> store.now + 1,
               last |-> LastCall("deleteOrder", id, "", store.orders, "none")]
  /\ UNCHANGED <<tree, text, call, view, manager>>

\* updateOrderStatus(id, status)
UpdateOrderStatus(id, status) ==
  /\ store.now < MaxCalls
  /\ store' = [orders |-> updateOrderStatus(store.orders, id, status, store.now + 1),
               now |-> store.now + 1,
               last |-> LastCall("updateOrderStatus", id, status, store.orders,
                                 IF FindIndex(store.orders, id) >= 1
                                   THEN "order_status_changed" ELSE "none")]
  /\ UNCHANGED <<tree, text, call, view, manager>>

StoreNext ==
  \/ \E order \in OrdersToSave : SaveOrder(order)
  \/ \E id \in StoredIds \cup {UnknownId} : DeleteOrder(id)
  \/ \E id \in StoredIds \cup {UnknownId}, status \in Statuses :
        UpdateOrderStatus(id, status)

StoreSpec == Init /\ [][StoreNext]_vars

---------------------------------------------------------------------------
(* What the properties below are stated with.                              *)

LastChars(s, n) == SubSeq(s, Len(s) - n + 1, Len(s))

DropLast(s, n) == SubSeq(s, 1, Len(s) - n)

UpperHexChars ==
  {"0", "1", "2", "3", "4", "5", "6", "7", "8", "9", "A", "B", "C", "D", "E", "F"}

CrcTag == <<"6", "3">>

\* A tag the format makes a template: '62', or two digits that read 26..51.
TemplateTag(tag) ==
  \/ tag = <<"6", "2">>
  \/ /\ Len(tag) = 2 /\ IsDigit(tag[1]) /\ IsDigit(tag[2])
     /\ 10 * (charCodeAt(tag[1]) - 48) + (charCodeAt(tag[2]) - 48) \in 26..51

\* a before b in code-unit order, for two-character tags
OrdinalBefore(a, b) ==
  \/ charCodeAt(a[1]) < charCodeAt(b[1])
  \/ a[1] = b[1] /\ charCodeAt(a[2]) < charCodeAt(b[2])

\* The fields of s read strictly: tag, two decimal digits, exactly that
\* many characters, one field after the other to the end of s.
RECURSIVE StrictFields(_)
StrictFields(s) ==
  IF s = <<>> THEN [ok |-> TRUE, fields |-> <<>>]
  ELSE IF Len(s) < 4 \/ ~IsDigit(s[3]) \/ ~IsDigit(s[4])
    THEN [ok |-> FALSE, fields |-> <<>>]
  ELSE LET n == DigitsValue(SubSeq(s, 3, 4), 0)
       IN  IF Len(s) < 4 + n THEN [ok |-> FALSE, fields |-> <<>>]
           ELSE LET rest == StrictFields(SubSeq(s, 5 + n, Len(s)))
                IN  [ok |-> rest.ok,
                     fields |-> <<[tag |-> SubSeq(s, 1, 2),
                                   value |-> SubSeq(s, 5, 4 + n)]>>
                                  \o rest.fields]

\* s is, field by field, the entries of map: as many fields as entries,
\* each entry's tag with the entry's string, or with the fields of the
\* entry's own entries.
RECURSIVE EmittedAs(_, _)
EmittedAs(s, map) ==
  LET d == StrictFields(s)
  IN  /\ d.ok
      /\ Len(d.fields) = Len(map)
      /\ \A k \in 1..Len(map) :
           \E j \in 1..Len(d.fields) :
             /\ d.fields[j].tag = map[k].tag
             /\ IF map[k].val.kind = "leaf"
                  THEN d.fields[j].value = map[k].val.str
                  ELSE EmittedAs(d.fields[j].value, map[k].val.ent)

\* No built value, at any level, is longer than the 99 characters two
\* digits can state.
RECURSIVE FitsTwoDigits(_)
FitsTwoDigits(map) ==
  \A k \in 1..Len(map) :
    /\ Len(buildValue(map[k].val)) <= 99
    /\ map[k].val.kind = "map" => FitsTwoDigits(map[k].val.ent)

\* A map as a set: its tags with their values, whatever their order.
RECURSIVE TreeSet(_)
TreeSet(map) ==
  { <<map[k].tag, map[k].val.kind, map[k].val.str, TreeSet(map[k].val.ent)>> :
      k \in 1..Len(map) }

\* The trees of the round trip: tags in ascending order, no tag 63,
\* templates under the template tags and strings under the others, at every
\* level.
RECURSIVE CanonicalTree(_)
CanonicalTree(map) ==
  /\ \A k \in 1..Len(map) :
       /\ TagPattern(map[k].tag)
       /\ map[k].tag # CrcTag
       /\ (map[k].val.kind = "map") <=> TemplateTag(map[k].tag)
       /\ map[k].val.kind = "map" => CanonicalTree(map[k].val.ent)
  /\ \A k \in 1..(Len(map) - 1) : OrdinalBefore(map[k].tag, map[k + 1].tag)

\* buildEmv has returned, for a map written by the caller or parsed
Built == call.op = "buildEmv"

\* parseEmv has been called
Parsed == call.op = "parseEmv"

\* parseEmv has been called on the string buildEmv returned
ParsedBack == call.op = "parseEmv" /\ call.prev.op = "buildEmv"

\* buildEmv has returned for the map parseEmv returned
BuiltBack == call.op = "buildEmv" /\ call.prev.op = "parseEmv"

\* generateDynamicQRISPayload has been called
MadeDynamic == call.op = "generateDynamicQRISPayload"

\* The fields of a canonical payload level: strictly readable, tags that
\* match the tag pattern in strictly ascending code-unit order (so no tag
\* twice), and the same inside the value of every template tag.
RECURSIVE CanonicalFields(_)
CanonicalFields(s) ==
  LET d == StrictFields(s)
  IN  /\ d.ok
      /\ \A k \in 1..Len(d.fields) :
           /\ TagPattern(d.fields[k].tag)
           /\ d.fields[k].tag # CrcTag
           /\ TemplateTag(d.fields[k].tag) => CanonicalFields(d.fields[k].value)
      /\ \A k \in 1..(Len(d.fields) - 1) :
           OrdinalBefore(d.fields[k].tag, d.fields[k + 1].tag)

\* A canonical payload: canonical fields, then 6304 and the upper-case
\* checksum of all that precedes the checksum.
CanonicalPayload(x) ==
  /\ Len(x) >= 8
  /\ SubSeq(x, Len(x) - 7, Len(x) - 4) = <<"6", "3", "0", "4">>
  /\ LastChars(x, 4) = toUpperCase(crc16Ccitt(DropLast(x, 4)))
  /\ CanonicalFields(DropLast(x, 8))

AllDigits(s) == \A k \in 1..Len(s) : IsDigit(s[k])

\* Templates under the template tags and strings under every other tag, at
\* every level of a map.
RECURSIVE SplitByTag(_)
SplitByTag(map) ==
  \A k \in 1..Len(map) :
    /\ (map[k].val.kind = "map") <=> TemplateTag(map[k].tag)
    /\ map[k].val.kind = "map" => SplitByTag(map[k].val.ent)

\* The entries buildEmv is to emit for a map: those with another tag than
\* 63, and the checksum field that ends the built string.
EntriesWithCrc(map, built) ==
  WithoutCrc(map) \o <<Entry(CrcTag, Leaf(LastChars(built, 4)))>>

---------------------------------------------------------------------------
(* C1: whatever the map, the string buildEmv returns ends in 63, 04 and    *)
(* four characters that are upper-case hexadecimal digits.                 *)
C1_BuildEndsInCrcTrailer ==
  Built =>
    /\ Len(call.out) >= 8
    /\ SubSeq(call.out, Len(call.out) - 7, Len(call.out) - 4)
         = <<"6", "3", "0", "4">>
    /\ \A k \in (Len(call.out) - 3)..Len(call.out) :
         call.out[k] \in UpperHexChars

\* a map with a tag 63 of its own was built and the checksum has a letter
C1_Witness ==
  /\ Built /\ HasKey(call.in, CrcTag) /\ Len(call.in) = 2
  /\ \E k \in (Len(call.out) - 3)..Len(call.out) : IsUpper(call.out[k])

(* C2: crc16Ccitt of the built string without its last four characters,    *)
(* in upper case, is the last four characters of the built string.         *)
C2_BuiltCrcSelfConsistent ==
  Built =>
    toUpperCase(crc16Ccitt(DropLast(call.out, 4))) = LastChars(call.out, 4)

\* a map of two tags, one of them a template with a sub-tag, was built
C2_Witness ==
  /\ Built /\ Len(call.in) = 2
  /\ \E k \in 1..2 : call.in[k].val.kind = "map" /\ call.in[k].val.ent # <<>>

C4_ByteExactRoundTrip ==
  (BuiltBack /\ CanonicalPayload(call.prev.in)) => call.out = call.prev.in

(* C5: for a non-empty reference r, generateDynamicQRISPayload returns a   *)
(* string whose parse has 01 = '12', 54 = the formatted amount and 62 a    *)
(* template with 01 = r, and whose checksum is the one recomputed over     *)
(* what precedes it.                                                       *)
C5_DynamicPostcondition ==
  (MadeDynamic /\ Truthy(call.in.reference)) =>
    /\ call.out.returns
    /\ LET p == parseEmv(call.out.str)
       IN  /\ p.returns
           /\ HasKey(p.map, <<"0", "1">>)
           /\ Get(p.map, <<"0", "1">>) = Leaf(<<"1", "2">>)
           /\ HasKey(p.map, <<"5", "4">>)
           /\ Get(p.map, <<"5", "4">>) = Leaf(amountStr(call.in.amount))
           /\ HasKey(p.map, <<"6", "2">>)
           /\ Get(p.map, <<"6", "2">>).kind = "map"
           /\ HasKey(Get(p.map, <<"6", "2">>).ent, <<"0", "1">>)
           /\ Get(Get(p.map, <<"6", "2">>).ent, <<"0", "1">>)
                = Leaf(call.in.reference.str)
    /\ LastChars(call.out.str, 4)
         = toUpperCase(crc16Ccitt(DropLast(call.out.str, 4)))

(* C6: tag 54 of the map generateDynamicQRISPayload builds is the amount   *)
(* (a non-negative number of hundredths) in decimal: digits alone when the *)
(* hundredths are 00, and otherwise digits, a point and exactly two        *)
(* digits, trailing zero kept.                                             *)
C6_AmountFormat ==
  (MadeDynamic /\ call.out.returns) =>
    /\ HasKey(call.out.emv, <<"5", "4">>)
    /\ Get(call.out.emv, <<"5", "4">>).kind = "leaf"
    /\ LET s == Get(call.out.emv, <<"5", "4">>).str
           c == call.in.amount
       IN  IF c % 100 = 0
             THEN /\ s # <<>> /\ AllDigits(s)
                  /\ 100 * DigitsValue(s, 0) = c
             ELSE /\ Len(s) >= 4
                  /\ s[Len(s) - 2] = "."
                  /\ AllDigits(DropLast(s, 3)) /\ AllDigits(LastChars(s, 2))
                  /\ 100 * DigitsValue(DropLast(s, 3), 0)
                       + DigitsValue(LastChars(s, 2), 0) = c

\* the transform returned for 10.5, whose tag 54 keeps its trailing zero
C6_Witness ==
  /\ MadeDynamic /\ call.out.returns /\ call.in.amount = 1050
  /\ call.in.basePayload # <<>>

(* C7: in the map parseEmv returns, at every level, a value is a template  *)
(* exactly when its tag is '62' or two digits reading 26..51; every other  *)
(* tag holds a string.                                                     *)
C7_CompositeIffTemplateTag ==
  (Parsed /\ call.out.returns) => SplitByTag(call.out.map)

\* tag 26 with content that holds no field was parsed to an empty template,
\* and the tag 2A after it to a string
C7_Witness ==
  /\ Parsed /\ call.out.returns /\ call.prev = NoCall
  /\ HasKey(call.out.map, <<"2", "6">>)
  /\ Get(call.out.map, <<"2", "6">>) = Composite(<<>>)
  /\ HasKey(call.out.map, <<"2", "A">>)
  /\ Get(call.out.map, <<"2", "A">>).kind = "leaf"

(* C8: the fields buildEmv emits before the checksum field are in          *)
(* ascending code-unit order of their tags.                                *)
C8_TopLevelOrdinalOrder ==
  (Built /\ StrictFields(call.out).ok) =>
    LET f == StrictFields(call.out).fields
    IN  \A k \in 1..(Len(f) - 2) : OrdinalBefore(f[k].tag, f[k + 1].tag)

(* C9, as claimed: whatever the map, the built string is, at every level,  *)
(* one field per entry: tag, two decimal digits, and a value of exactly    *)
(* that many characters.                                                   *)
C9_LengthFields ==
  Built => EmittedAs(call.out, EntriesWithCrc(call.in, call.out))

(* C9, amended: the same for every map none of whose built values, at any  *)
(* level, is longer than 99 characters.                                    *)
C9_LengthFieldsWithin99 ==
  (Built /\ FitsTwoDigits(WithoutCrc(call.in))) =>
    EmittedAs(call.out, EntriesWithCrc(call.in, call.out))

\* a map of two tags, one a template with two sub-tags, was built
C9_Witness ==
  /\ Built /\ FitsTwoDigits(WithoutCrc(call.in)) /\ Len(call.in) = 2
  /\ \E k \in 1..2 : Len(call.in[k].val.ent) = 2

(* C10: parseEmv returns a map for every input string.                     *)
C10_ParseReturns == Parsed => call.out.returns

---------------------------------------------------------------------------
(* CRC-16/CCITT-FALSE as a shift register: sixteen cells, cell 15 the      *)
(* most significant, all set at the start; each message bit, most          *)
(* significant first, is xored with cell 15 to give the feedback, the      *)
(* cells shift up by one, and the feedback enters cells 0, 5 and 12        *)
(* (x^16 + x^12 + x^5 + 1).  Nothing is reflected and nothing is xored in  *)
(* at the end.                                                             *)

RefTaps == {0, 5, 12}

RefStart == [k \in 0..15 |-> TRUE]

RefStep(reg, bit) ==
  LET feedback == (reg[15] # bit)
  IN  [k \in 0..15 |->
         IF k = 0 THEN feedback
         ELSE IF k \in RefTaps THEN (reg[k - 1] # feedback)
         ELSE reg[k - 1]]

\* Bit k (0 the least significant) of an 8-bit character code.
RefBit(code, k) == (code \div (2 ^ k)) % 2 = 1

RECURSIVE RefByte(_, _, _)
\* The bits k, k - 1, .. 0 of a character go through the register.
RefByte(reg, code, k) ==
  IF k < 0 THEN reg ELSE RefByte(RefStep(reg, RefBit(code, k)), code, k - 1)

RECURSIVE RefCrc(_, _)
RefCrc(reg, str) ==
  IF str = <<>> THEN reg
  ELSE LET next == RefByte(reg, charCodeAt(Head(str)), 7)
       IN  IF next[0] \in BOOLEAN THEN RefCrc(next, Tail(str)) ELSE next

\* Four cells of the register as one lowercase hexadecimal digit.
RefNibble(reg, lo) ==
  HexDigits[1 + (IF reg[lo + 3] THEN 8 ELSE 0) + (IF reg[lo + 2] THEN 4 ELSE 0)
              + (IF reg[lo + 1] THEN 2 ELSE 0) + (IF reg[lo] THEN 1 ELSE 0)]

RefHex(reg) ==
  <<RefNibble(reg, 12), RefNibble(reg, 8), RefNibble(reg, 4), RefNibble(reg, 0)>>

EightBit(str) == \A k \in 1..Len(str) : charCodeAt(str[k]) <= 255

CheckValueInput == <<"1", "2", "3", "4", "5", "6", "7", "8", "9">>

CrcCalled == call.op = "crc16Ccitt"

\* C11: on every string of 8-bit characters crc16Ccitt returns the
\* CRC-16/CCITT-FALSE of the string (polynomial 0x1021, initial value
\* 0xFFFF, most significant bit first, no reflection, no final xor) as the
\* bit-by-bit reference computes it; on '123456789' it returns '29b1'.
C11_CrcMatchesReference ==
  (CrcCalled /\ EightBit(call.in)) =>
     /\ call.out = RefHex(RefCrc(RefStart, call.in))
     /\ (call.in = CheckValueInput => call.out = <<"2", "9", "b", "1">>)

C11_Witness ==
  /\ CrcCalled
  /\ call.in = CheckValueInput
  /\ call.out = <<"2", "9", "b", "1">>

LowerHexChars ==
  {"0", "1", "2", "3", "4", "5", "6", "7", "8", "9", "a", "b", "c", "d", "e", "f"}

RECURSIVE HexValue(_, _)
\* The number a string of lowercase hexadecimal digits writes.
HexValue(s, acc) ==
  IF s = <<>> THEN acc
  ELSE HexValue(Tail(s), 16 * acc + IndexIn(HexDigits, Head(s)) - 1)

\* C12: for every input string, 16-bit characters included, crc16Ccitt
\* returns exactly four characters, each a lowercase hexadecimal digit,
\* short values padded with zeros on the left; they write the register,
\* which is within 0..65535 and is the whole string's register value; the
\* empty string gives 'ffff'.
C12_FourLowerHexDigits ==
  CrcCalled =>
     /\ Len(call.out) = 4
     /\ \A k \in 1..Len(call.out) : call.out[k] \in LowerHexChars
     /\ CrcLoop(call.in, 0, Len(call.in), CrcInit) \in 0..65535
     /\ HexValue(call.out, 0) = CrcLoop(call.in, 0, Len(call.in), CrcInit)
     /\ (call.in = <<>> => call.out = <<"f", "f", "f", "f">>)

\* A checksum below 0x1000 of a string that holds a 16-bit character,
\* printed with a leading zero.
C12_Witness ==
  /\ CrcCalled
  /\ ~EightBit(call.in)
  /\ call.out[1] = "0"
  /\ Len(call.out) = 4

\* A string that is not a sequence of complete fields, or holds none.
Unparseable(s) == s = <<>> \/ ~StrictFields(s).ok

\* s is complete fields, the last of them 6304 with the upper-case
\* checksum of all that precedes the checksum.
FieldsWithValidCrc(s) ==
  /\ StrictFields(s).ok
  /\ Len(s) >= 8
  /\ SubSeq(s, Len(s) - 7, Len(s) - 4) = <<"6", "3", "0", "4">>
  /\ LastChars(s, 4) = toUpperCase(crc16Ccitt(DropLast(s, 4)))

HasField(s, tag) ==
  \E k \in 1..Len(StrictFields(s).fields) : StrictFields(s).fields[k].tag = tag

HasFieldWith(s, tag, value) ==
  \E k \in 1..Len(StrictFields(s).fields) :
    StrictFields(s).fields[k] = [tag |-> tag, value |-> value]

\* C14: generateDynamicQRISPayload on a base payload that is not a
\* sequence of complete fields (empty, garbage, cut short) returns, and
\* returns complete fields with tag 01 holding '12' and a tag 54 among
\* them, ending in 6304 and the valid checksum.
C14_DynamicOnUnparseableBase ==
  (MadeDynamic /\ Unparseable(call.in.basePayload)) =>
     /\ call.out.returns
     /\ FieldsWithValidCrc(call.out.str)
     /\ HasFieldWith(call.out.str, <<"0", "1">>, <<"1", "2">>)
     /\ HasField(call.out.str, <<"5", "4">>)

\* decodeQRFromBase64 has been called and its promise has settled
Decoded == call.op = "decodeQRFromBase64"

\* The scan failed, or gave no text: nothing, an object without a data
\* string, or the empty string.
ScanGaveNoData(scan) ==
  \/ scan.settled = "rejected"
  \/ scan.value.type \in {"undefined", "null"}
  \/ scan.value.type = "string" /\ scan.value.str = <<>>
  \/ /\ scan.value.type = "object"
     /\ \/ scan.value.props = <<>>
        \/ scan.value.props[1].type # "string"
        \/ scan.value.props[1].str = <<>>

\* C15: whatever the scan does (a string, an object with or without a
\* data string, nothing, a rejection), the promise of decodeQRFromBase64 is
\* fulfilled, never rejected, with a string, and with the empty string
\* whenever the scan failed or gave no data.
C15_DecodeNeverRejects ==
  Decoded =>
     /\ call.out.settled = "fulfilled"
     /\ call.out.value.type = "string"
     /\ ScanGaveNoData(call.in) => call.out.value.str = <<>>

\* the scan was rejected and the promise is fulfilled with ''
C15_Witness ==
  /\ Decoded
  /\ call.in.settled = "rejected"
  /\ call.out = Fulfilled(JsString(<<>>))

\* The tags of the fields of s, one strictly before the next in code-unit
\* order.
FieldTagsAscending(s) ==
  LET d == StrictFields(s)
  IN  /\ d.ok
      /\ \A k \in 1..(Len(d.fields) - 1) :
           OrdinalBefore(d.fields[k].tag, d.fields[k + 1].tag)

\* Every composite of map that is emitted in the built string s is there
\* as fields in ascending order of their sub-tags.
NestedAscending(map, s) ==
  \A k \in 1..Len(map) :
    (map[k].val.kind = "map" /\ map[k].tag # CrcTag) =>
       \E j \in 1..Len(StrictFields(s).fields) :
         /\ StrictFields(s).fields[j].tag = map[k].tag
         /\ FieldTagsAscending(StrictFields(s).fields[j].value)

\* C16: whatever the order in which the sub-tags of a composite were
\* written ('01', '05', '10'; or '01' added by generateDynamicQRISPayload
\* to a composite that held '05'), the built string lists the composite's
\* sub-tags in ascending lexicographic order.
C16_NestedSubTagsAscending ==
  /\ (Built /\ FitsTwoDigits(call.in)) => NestedAscending(call.in, call.out)
  /\ (MadeDynamic /\ call.out.returns /\ FitsTwoDigits(call.out.emv)) =>
        NestedAscending(call.out.emv, call.out.str)

\* delete map[tag]
DeleteKey(map, tag) ==
  IF HasKey(map, tag)
    THEN LET k == CHOOSE j \in 1..Len(map) : map[j].tag = tag
         IN  SubSeq(map, 1, k - 1) \o SubSeq(map, k + 1, Len(map))
    ELSE map

\* C17: buildEmv of a map that has a tag 63 is the string buildEmv returns
\* for the same map with the tag 63 deleted, whatever the tag held; and the
\* fields of a built string have tag 63 exactly once, as the last field,
\* holding the checksum of all that precedes it.
C17_CrcTagNotCarriedOver ==
  Built =>
     /\ call.out = buildEmv(DeleteKey(call.in, CrcTag))
     /\ StrictFields(call.out).ok =>
          LET f == StrictFields(call.out).fields
          IN  /\ f # <<>>
              /\ f[Len(f)].tag = CrcTag
              /\ f[Len(f)].value = toUpperCase(crc16Ccitt(DropLast(call.out, 4)))
              /\ \A k \in 1..(Len(f) - 1) : f[k].tag # CrcTag

\* a map holding a tag 63 of its own and another tag was built into
\* complete fields
C17_Witness ==
  /\ Built
  /\ HasKey(call.in, CrcTag)
  /\ DeleteKey(call.in, CrcTag) # <<>>
  /\ Get(call.in, CrcTag).str # LastChars(call.out, 4)
  /\ StrictFields(call.out).ok

\* The first k characters of s, and the rest.
Prefix(s, k) == SubSeq(s, 1, k)

Suffix(s, k) == SubSeq(s, k + 1, Len(s))

\* p is complete fields and the last of them has tag 63.
EndsInCrcField(p) ==
  LET d == StrictFields(p)
  IN  d.ok /\ d.fields # <<>> /\ d.fields[Len(d.fields)].tag = CrcTag

\* C18: parseEmv reads nothing after a field with tag 63: for every
\* payload p of complete fields that ends in a tag 63 field and every
\* suffix s, parseEmv(p + s) is parseEmv(p).
C18_StopsAtCrcField ==
  Parsed =>
    /\ \A k \in 0..Len(call.in) :
         EndsInCrcField(Prefix(call.in, k)) =>
           call.out = parseEmv(Prefix(call.in, k))
    /\ EndsInCrcField(call.in) =>
         \A s \in Pieces : parseEmv(call.in \o s) = call.out

\* a tag 63 field followed by a field that would parse was parsed
C18_Witness ==
  /\ Parsed
  /\ \E k \in 0..(Len(call.in) - 4) :
       /\ EndsInCrcField(Prefix(call.in, k))
       /\ StrictFields(Suffix(call.in, k)).ok
       /\ IsAlnum(call.in[k + 1]) /\ IsAlnum(call.in[k + 2])
  /\ call.out = Returns(<<Entry(CrcTag, Leaf(<<"A", "B", "C", "D">>))>>)

\* p is complete fields with tags of two letters or digits, and so is the
\* value of every template among them.
RECURSIVE WellFormed(_)
WellFormed(p) ==
  LET d == StrictFields(p)
  IN  /\ d.ok
      /\ \A k \in 1..Len(d.fields) :
           /\ IsAlnum(d.fields[k].tag[1]) /\ IsAlnum(d.fields[k].tag[2])
           /\ TemplateTag(d.fields[k].tag) => WellFormed(d.fields[k].value)

\* The first two characters of s are not two letters or digits: s is
\* shorter than that, or one of the two is another character.
NoiseStart(s) == ~(Len(s) >= 2 /\ IsAlnum(s[1]) /\ IsAlnum(s[2]))

\* C19: for every payload p of complete well-formed fields and every
\* suffix s whose first two characters are not a tag, parseEmv(p + s)
\* returns, and returns parseEmv(p): the noise adds nothing and the fields
\* before it are kept.
C19_TrailingNoiseIgnored ==
  Parsed =>
    \A k \in 0..Len(call.in) :
      (WellFormed(Prefix(call.in, k)) /\ NoiseStart(Suffix(call.in, k))) =>
         /\ call.out.returns
         /\ call.out = parseEmv(Prefix(call.in, k))
         /\ k > 0 => HasKey(call.out.map, Prefix(call.in, 2))

\* fields followed by noise were parsed, and the fields are in the result
C19_Witness ==
  /\ Parsed
  /\ \E k \in 1..(Len(call.in) - 1) :
       /\ WellFormed(Prefix(call.in, k))
       /\ NoiseStart(Suffix(call.in, k))
  /\ call.out.returns
  /\ call.out.map # <<>>

\* C20: parseEmv reads a field only while at least four characters remain
\* at the cursor: with fewer than four left after complete well-formed
\* fields the loop ends and no entry is added, so the parse of a string of
\* two or three letters or digits is the empty map.
C20_ReadsOnlyWithFourRemaining ==
  Parsed =>
    \A k \in 0..Len(call.in) :
      (WellFormed(Prefix(call.in, k)) /\ Len(Suffix(call.in, k)) < 4) =>
         call.out = parseEmv(Prefix(call.in, k))

\* No field of the complete fields p has tag 63.
NoCrcField(p) ==
  \A k \in 1..Len(StrictFields(p).fields) : StrictFields(p).fields[k].tag # CrcTag

\* f starts with a tag and two digits that state more characters than
\* follow them in f.
TruncatedField(f) ==
  /\ Len(f) >= 4
  /\ IsAlnum(f[1]) /\ IsAlnum(f[2])
  /\ IsDigit(f[3]) /\ IsDigit(f[4])
  /\ DigitsValue(SubSeq(f, 3, 4), 0) > Len(f) - 4

\* The value parseEmv is to store under tag for the characters rest.
StoredFor(tag, rest) ==
  IF TemplateTag(tag) THEN Composite(parseEmv(rest).map) ELSE Leaf(rest)

\* C21: when, after complete well-formed fields, a field states a length
\* greater than the number of characters that follow its length, parseEmv
\* returns, the value stored under the field's tag is exactly the
\* characters that follow (parsed, under a template tag, where they are
\* well-formed fields), and that field is the last one read.
C21_TruncatedLastValue ==
  Parsed =>
    \A k \in 0..Len(call.in) :
      LET p    == Prefix(call.in, k)
          f    == Suffix(call.in, k)
          rest == SubSeq(f, 5, Len(f))
      IN  (/\ WellFormed(p) /\ NoCrcField(p)
           /\ TruncatedField(f)
           /\ TemplateTag(SubSeq(f, 1, 2)) => WellFormed(rest)) =>
            /\ call.out.returns
            /\ HasKey(call.out.map, SubSeq(f, 1, 2))
            /\ Get(call.out.map, SubSeq(f, 1, 2)) = StoredFor(SubSeq(f, 1, 2), rest)
            /\ call.out.map
                 = Put(parseEmv(p).map, SubSeq(f, 1, 2),
                       StoredFor(SubSeq(f, 1, 2), rest))

\* a template that states 99 characters and has a whole field after its
\* length was parsed
C21_Witness ==
  /\ Parsed
  /\ call.in = <<"2", "6", "9", "9", "0", "1", "0", "2", "1", "1">>
  /\ call.out = Returns(<<Entry(<<"2", "6">>,
                     Composite(<<Entry(<<"0", "1">>, Leaf(<<"1", "1">>))>>))>>)

\* Two characters that do not start with a decimal number: neither a
\* digit first, nor a space or a sign and then a digit.
NoNumber(l) ==
  /\ Len(l) = 2
  /\ ~IsDigit(l[1])
  /\ ~(l[1] \in {" ", "+", "-"} /\ IsDigit(l[2]))

EmptyFor(tag) == IF TemplateTag(tag) THEN Composite(<<>>) ELSE Leaf(<<>>)

\* C22: when, after complete well-formed fields, a tag is followed by two
\* characters that do not start with a decimal number, parseEmv returns;
\* the tag is stored with an empty value (the empty string, or the empty
\* map under a template tag), nothing after it is read, and every field
\* read before it is kept.
C22_NonNumericLength ==
  Parsed =>
    \A k \in 0..Len(call.in) :
      LET p == Prefix(call.in, k)
          f == Suffix(call.in, k)
      IN  (/\ WellFormed(p) /\ NoCrcField(p)
           /\ Len(f) >= 4
           /\ IsAlnum(f[1]) /\ IsAlnum(f[2])
           /\ NoNumber(SubSeq(f, 3, 4))) =>
            /\ call.out.returns
            /\ call.out.map
                 = Put(parseEmv(p).map, SubSeq(f, 1, 2), EmptyFor(SubSeq(f, 1, 2)))
            /\ \A j \in 1..Len(StrictFields(p).fields) :
                 HasKey(call.out.map, StrictFields(p).fields[j].tag)

\* a leaf, then a template tag with '!!' for its length: the template is
\* stored empty and the leaf is kept
C22_Witness ==
  /\ Parsed
  /\ call.in = <<"0", "1", "0", "2", "1", "1", "2", "6", "!", "!">>
  /\ call.out.returns
  /\ Get(call.out.map, <<"2", "6">>) = Composite(<<>>)
  /\ Get(call.out.map, <<"0", "1">>) = Leaf(<<"1", "1">>)

AdditionalDataTag == <<"6", "2">>

\* The value of the first field of s that has the tag.
FieldValue(s, tag) ==
  LET f == StrictFields(s).fields
  IN  f[CHOOSE k \in 1..Len(f) : f[k].tag = tag].value

\* C23: when generateDynamicQRISPayload is given no reference, the string
\* it returns has a tag 62 field exactly when the parsed base payload has
\* a tag 62, holding what the base held; a base payload without tag 62
\* gives a string without a tag 62 field.
C23_NoReferenceLeavesTag62 ==
  (/\ MadeDynamic /\ call.out.returns
   /\ ~call.in.reference.given
   /\ StrictFields(call.out.str).ok) =>
     LET base == parseEmv(call.in.basePayload).map
     IN  /\ HasField(call.out.str, AdditionalDataTag)
              <=> HasKey(base, AdditionalDataTag)
         /\ HasKey(base, AdditionalDataTag) =>
              FieldValue(call.out.str, AdditionalDataTag)
                = buildValue(Get(base, AdditionalDataTag))

\* Every entry of map whose tag is not among except is an entry of other,
\* with an equal value.
KeptExcept(map, other, except) ==
  \A k \in 1..Len(map) :
    map[k].tag \notin except =>
      /\ HasKey(other, map[k].tag)
      /\ Get(other, map[k].tag) = map[k].val

\* The entries of the composite under tag 62 of map, none when there is no
\* composite there.
AdditionalData(map) ==
  IF HasKey(map, AdditionalDataTag) /\ Get(map, AdditionalDataTag).kind = "map"
    THEN Get(map, AdditionalDataTag).ent
    ELSE <<>>

\* C24: for every base payload, amount and reference the call returns, and
\* the parse of the string it returns holds every top-level tag of the
\* parse of the base other than 01, 54, 62 and 63 with an equal value
\* (sub-tags of templates included), and every sub-tag other than 01 of
\* the base's tag 62 with an equal value.
C24_DynamicKeepsOtherTags ==
  MadeDynamic =>
    /\ call.out.returns
    /\ LET base == parseEmv(call.in.basePayload).map
           back == parseEmv(call.out.str)
       IN  /\ back.returns
           /\ KeptExcept(base, back.map,
                         {<<"0", "1">>, <<"5", "4">>, AdditionalDataTag, CrcTag})
           /\ KeptExcept(AdditionalData(base), AdditionalData(back.map),
                         {<<"0", "1">>})

\* The characters the model has a code for.
Chars ==
  {Digits[k] : k \in 1..Len(Digits)} \cup {UpperCase[k] : k \in 1..Len(UpperCase)}
    \cup {LowerCase[k] : k \in 1..Len(LowerCase)}
    \cup {" ", "!", "+", "-", ".", "NOT", "EURO"}

\* The character whose code is the low 8 bits of the code of c.
LowByteChar(c) == CHOOSE d \in Chars : charCodeAt(d) = charCodeAt(c) % 256

LowBytes(s) == [k \in 1..Len(s) |-> LowByteChar(s[k])]

\* C25: the checksum of a string, characters with a code above 255
\* included, is the checksum of the string with every character replaced
\* by the one whose code is the low 8 bits of its code: what
\* charCodeAt(i) << 8 puts above bit 15 has no effect.
C25_OnlyLowByteCounts ==
  CrcCalled => call.out = crc16Ccitt(LowBytes(call.in))

\* the checksum of a string with U+20AC and another character in it
C25_Witness ==
  /\ CrcCalled
  /\ LowBytes(call.in) # call.in
  /\ EightBit(LowBytes(call.in))
  /\ Len(call.in) >= 2

\* No tag twice among the entries of a map, nor of any map inside it.
RECURSIVE NoTagTwice(_)
NoTagTwice(map) ==
  /\ \A j, k \in 1..Len(map) : map[j].tag = map[k].tag => j = k
  /\ \A k \in 1..Len(map) : map[k].val.kind = "map" => NoTagTwice(map[k].val.ent)

\* The last of the fields that has the tag of field k is field k.
LastOfItsTag(fields, k) ==
  \A j \in (k + 1)..Len(fields) : fields[j].tag # fields[k].tag

\* C26: the map parseEmv returns has one entry for a tag, at every level,
\* however often the tag occurs in the payload; for a payload of complete
\* well-formed fields the entry holds the value of the last field with
\* that tag.
C26_DuplicateTagsLastWins ==
  (Parsed /\ call.out.returns) =>
     /\ NoTagTwice(call.out.map)
     /\ (WellFormed(call.in) /\ NoCrcField(call.in)) =>
          LET f == StrictFields(call.in).fields
          IN  \A k \in 1..Len(f) :
                LastOfItsTag(f, k) =>
                  /\ HasKey(call.out.map, f[k].tag)
                  /\ Get(call.out.map, f[k].tag) = StoredFor(f[k].tag, f[k].value)

\* two fields with tag 01 were parsed: one entry, with the second value
C26_Witness ==
  /\ Parsed
  /\ call.in = <<"0", "1", "0", "2", "1", "1", "0", "1", "0", "2", "A", "B">>
  /\ call.out = Returns(<<Entry(<<"0", "1">>, Leaf(<<"A", "B">>))>>)

\* C27: when no generation is pending in OrderView, a dynamicQR that is
\* shown is the image made from the payload, the total and the order
\* number the view has now: the image of an earlier generation never
\* replaces that of a later one, and none is shown without a payload.
C27_LatestGenerationShown ==
  (view.mounted /\ view.pending = {} /\ view.dynamicQR.set) =>
     /\ view.deps.qrisPayload # <<>>
     /\ view.dynamicQR = makeQRDataURL(DynamicPayloadFor(view.deps))

\* C28: the payload saved with a QRIS record is undefined, empty, or the
\* string decoded from the image saved in the same record: never the
\* payload of an image uploaded or saved before.
C28_SavedPayloadIsOfSavedImage ==
  \A k \in 1..Len(manager.saved) :
    \/ manager.saved[k].qrisPayload.type = "undefined"
    \/ manager.saved[k].qrisPayload.str = <<>>
    \/ manager.saved[k].qrisPayload.str = DecodedFrom(manager.saved[k].qrisImage)

\* The ids of a list of orders.
IdsOf(orders) == { orders[k].id : k \in 1..Len(orders) }

\* C29: no two stored orders have one id; saveOrder with an id that is
\* stored puts the order at the place of the stored one and leaves the
\* others and the size as they were, saveOrder with a new id adds exactly
\* the order at the end; deleteOrder removes every order with the id and
\* no other.
C29_StoreIdsUnique ==
  LET before == store.last.before
      after  == store.orders
      id     == store.last.id
  IN  /\ \A j, k \in 1..Len(after) : after[j].id = after[k].id => j = k
      /\ (store.last.op = "saveOrder" /\ id \in IdsOf(before)) =>
           /\ Len(after) = Len(before)
           /\ \A k \in 1..Len(before) :
                IF before[k].id = id
                  THEN after[k].id = id /\ after[k].status = store.last.status
                  ELSE after[k] = before[k]
      /\ (store.last.op = "saveOrder" /\ id \notin IdsOf(before)) =>
           /\ Len(after) = Len(before) + 1
           /\ SubSeq(after, 1, Len(before)) = before
           /\ after[Len(after)].id = id
      /\ store.last.op = "deleteOrder" =>
           /\ id \notin IdsOf(after)
           /\ Len(after) = Cardinality({k \in 1..Len(before) : before[k].id # id})
           /\ \A k \in 1..Len(after) : \E j \in k..Len(before) : after[k] = before[j]

\* an order saved again, with another status, where the first one was,
\* before the second
C29_Witness ==
  /\ store.last.op = "saveOrder"
  /\ Len(store.last.before) = 2
  /\ Len(store.orders) = 2
  /\ store.orders[1].id = store.last.id
  /\ store.orders[1].status # store.last.before[1].status

\* The date updateOrderStatus is to leave: the one there was, or the time
\* of the call that gives the status the date goes with.
DateAfter(date, stamped, t) ==
  IF date.set THEN date ELSE IF stamped THEN DateAt(t) ELSE NoDate

\* C30: updateOrderStatus sets paymentDate at the call that gives the
\* status 'telah_dibayar' to an order without a paymentDate and otherwise
\* leaves the date as it was, whatever status follows whatever status, and
\* likewise completedDate for 'done'; a call with an id that is not stored
\* leaves the store as it was and sends no webhook.
C30_DatesSetOnce ==
  store.last.op = "updateOrderStatus" =>
    LET before == store.last.before
        after  == store.orders
        id     == store.last.id
    IN  IF id \notin IdsOf(before)
          THEN after = before /\ store.last.sent = "none"
          ELSE /\ Len(after) = Len(before)
               /\ store.last.sent = "order_status_changed"
               /\ \A k \in 1..Len(before) :
                    IF before[k].id = id
                      THEN /\ after[k].id = id
                           /\ after[k].status = store.last.status
                           /\ after[k].paymentDate
                                = DateAfter(before[k].paymentDate,
                                            store.last.status = "telah_dibayar",
                                            store.now)
                           /\ after[k].completedDate
                                = DateAfter(before[k].completedDate,
                                            store.last.status = "done",
                                            store.now)
                      ELSE after[k] = before[k]

\* an order paid at an earlier call is given the status 'telah_dibayar'
\* again and keeps the date of the earlier call
C30_Witness ==
  /\ store.last.op = "updateOrderStatus"
  /\ store.last.status = "telah_dibayar"
  /\ \E k \in 1..Len(store.orders) :
       /\ store.orders[k].id = store.last.id
       /\ store.last.before[k].status # "telah_dibayar"
       /\ store.orders[k].paymentDate.set
       /\ store.orders[k].paymentDate.at > 0
       /\ store.orders[k].paymentDate.at < store.now

=============================================================================
